---------------------------- MODULE Spec2Model ----------------------------
(***************************************************************************)
(* A model of SceneDetector (src/src/detector.py): the four frame          *)
(* difference methods, the two threshold formulas, and detect()'s frame    *)
(* loop with its sliding window, its decay state and its output file.      *)
(*                                                                         *)
(* Numbers.  Frames are grids of 8-bit samples, as cv2.cvtColor yields     *)
(* them, and arithmetic on them wraps modulo 256 as numpy's uint8 does.    *)
(* A frame value (the result of a difference method) is a record           *)
(* [nan, q]: nan is IEEE not-a-number, otherwise the value is the exact    *)
(* real q / ScoreUnit(method).  The thresholds are real-valued (a square   *)
(* root, an exponential): a threshold is kept as the terms of its formula  *)
(* and frame_val > threshold is decided over the integers, the square root *)
(* exactly, by squaring both sides, the exponential to the six decimal     *)
(* places of ExpTable.  The rounding of float64 is left out.               *)
(*                                                                         *)
(* detect() is modelled with display=False: no window is shown, no key is  *)
(* read and no graph is plotted.                                           *)
(***************************************************************************)
EXTENDS Integers, Sequences, FiniteSets, TLC

(***************************************************************************)
(* Bounds of the model.                                                    *)
(***************************************************************************)
\* the longest video the frame source yields
MaxFrames == 6
\* the largest window_size argument
MaxWindow == 2
\* the largest k argument
MaxK == 2

(***************************************************************************)
(* Frames.                                                                 *)
(***************************************************************************)
\* a grayscale frame: shape[1] rows of shape[2] samples, data in row-major
\* order
Frame(h, w, data) == [shape |-> <<h, w>>, data |-> data]

\* previous_frame = None (detector.py:216)
None == [shape |-> <<0, 0>>, data |-> <<>>]

\* frame.size
Size(f) == f.shape[1] * f.shape[2]

\* numpy's broadcasting rule for two 2-D shapes: dimension by dimension
\* they are equal or one of them is 1
Broadcastable(f1, f2) ==
    \A i \in 1..2 :
        \/ f1.shape[i] = f2.shape[i]
        \/ f1.shape[i] = 1
        \/ f2.shape[i] = 1

Max2(x, y) == IF x >= y THEN x ELSE y

\* the shape of frame1 - frame2
BroadcastShape(f1, f2) ==
    <<Max2(f1.shape[1], f2.shape[1]), Max2(f1.shape[2], f2.shape[2])>>

\* the sample of f that element (r, c) of a broadcast result reads
At(f, r, c) ==
    LET rr == IF f.shape[1] = 1 THEN 1 ELSE r
        cc == IF f.shape[2] = 1 THEN 1 ELSE c
    IN  f.data[(rr - 1) * f.shape[2] + cc]

RECURSIVE SumSeq(_)
SumSeq(s) == IF s = <<>> THEN 0 ELSE Head(s) + SumSeq(Tail(s))

\* frame1[:, :] - frame2[:, :] on uint8 arrays: element-wise, modulo 256
Adding_SubU8(f1, f2) ==
    LET sh == BroadcastShape(f1, f2)
    IN  [i \in 1..(sh[1] * sh[2]) |->
            LET r == ((i - 1) \div sh[2]) + 1
                c == ((i - 1) % sh[2]) + 1
            IN  (At(f1, r, c) + At(f2, r, c)) % 256]

SubU8(f1, f2) ==
    LET sh == BroadcastShape(f1, f2)
    IN  [i \in 1..(sh[1] * sh[2]) |->
            LET r == ((i - 1) \div sh[2]) + 1
                c == ((i - 1) % sh[2]) + 1
            IN  (At(f1, r, c) - At(f2, r, c)) % 256]

(***************************************************************************)
(* Frame values.                                                           *)
(***************************************************************************)
NaN == [nan |-> TRUE, q |-> 0]
Num(x) == [nan |-> FALSE, q |-> x]

\* a raised exception, in place of a value
Raised(e) == [nan |-> TRUE, q |-> 0, error |-> e]
IsRaised(v) == "error" \in DOMAIN v

\* The largest frame.size ** 2 of the model's frames: MAD values are held
\* as multiples of 1 / MadUnit.
MadUnit == 4

\* a frame value [nan, q] of method m is the real number q / ScoreUnit(m)
ScoreUnit(m) == IF m = "MAD" THEN MadUnit ELSE 1

\* numpy.sum(numpy.abs(frame1 - frame2)): numpy.abs of a uint8 array is the
\* array itself; numpy.sum adds in a 64-bit accumulator
calculate_SAD(f1, f2) ==
    IF ~Broadcastable(f1, f2) THEN Raised("ValueError")
    ELSE Num(SumSeq(SubU8(f1, f2)))

\* numpy.sum((frame1 - frame2) ** 2): the square of a uint8 array is a
\* uint8 array
calculate_SSD(f1, f2) ==
    IF ~Broadcastable(f1, f2) THEN Raised("ValueError")
    ELSE LET d == SubU8(f1, f2)
         IN  Num(SumSeq([i \in 1..Len(d) |-> (d[i] * d[i]) % 256]))

\* SAD / (frame1.size ** 2), in units of 1 / MadUnit
calculate_MAD(f1, f2) ==
    LET sad == calculate_SAD(f1, f2)
    IN  IF IsRaised(sad) THEN sad
        ELSE Num((sad.q * MadUnit) \div (Size(f1) * Size(f1)))

\* numpy.corrcoef(frame1.flat, frame2.flat)[0][1]: the samples are
\* converted to float64 first; vectors of different lengths cannot be
\* stacked; a vector of no variance gives 0/0.  With n samples and the
\* deviations dx[i] = n * x[i] - sum(x), the coefficient is
\* sum(dx * dy) / sqrt(sum(dx^2) * sum(dy^2)): 1 or -1 when dx and dy are
\* proportional, 0 when they are orthogonal.  Frames of one or two samples
\* give no other value.
calculate_CORR(f1, f2) ==
    IF Size(f1) # Size(f2) THEN Raised("ValueError")
    ELSE LET n   == Size(f1)
             dx  == [i \in 1..n |-> n * f1.data[i] - SumSeq(f1.data)]
             dy  == [i \in 1..n |-> n * f2.data[i] - SumSeq(f2.data)]
             cxy == SumSeq([i \in 1..n |-> dx[i] * dy[i]])
         IN  CASE (\A i \in 1..n : dx[i] = 0) \/ (\A i \in 1..n : dy[i] = 0)
                      -> NaN
               [] cxy = 0
                      -> Num(0)
               [] \A i, j \in 1..n : dx[i] * dy[j] = dx[j] * dy[i]
                      -> Num(IF cxy > 0 THEN 1 ELSE -1)

\* the keys of the methods dictionary (detector.py:155-160)
Methods == {"SAD", "SSD", "MAD", "CORR"}

\* self.__get_difference_method(method)(frame, previous_frame)
get_difference_method(key, f1, f2) ==
    CASE key = "SAD"  -> calculate_SAD(f1, f2)
      [] key = "SSD"  -> calculate_SSD(f1, f2)
      [] key = "MAD"  -> calculate_MAD(f1, f2)
      [] key = "CORR" -> calculate_CORR(f1, f2)
      [] OTHER        -> Raised("KeyError")

(***************************************************************************)
(* Window statistics and thresholds.                                       *)
(***************************************************************************)
\* the entries of a window that are not NaN, in window order
Present(window) == SelectSeq(window, LAMBDA v : ~v.nan)

\* numpy.nanmean(window): the real S / n; NaN when every entry is NaN
calculate_mean(window) ==
    LET p == Present(window)
    IN  [nan |-> Len(p) = 0,
         S   |-> SumSeq([i \in 1..Len(p) |-> p[i].q]),
         n   |-> Len(p)]

\* numpy.nanstd(window, ddof=1): the real sqrt(D / (n * m)) with
\* D = n * sum(x^2) - sum(x)^2 and m = n - ddof; NaN when m <= 0
Population_calculate_sd(window) ==
    LET p == Present(window)
        n == Len(p)
        S == SumSeq([i \in 1..n |-> p[i].q])
        Q == SumSeq([i \in 1..n |-> p[i].q * p[i].q])
    IN  [nan |-> n <= 0, D |-> n * Q - S * S, n |-> n, m |-> n]

calculate_sd(window) ==
    LET p == Present(window)
        n == Len(p)
        S == SumSeq([i \in 1..n |-> p[i].q])
        Q == SumSeq([i \in 1..n |-> p[i].q * p[i].q])
    IN  [nan |-> n - 1 <= 0, D |-> n * Q - S * S, n |-> n, m |-> n - 1]

\* a * window[0] + b * mean + c * sd, kept as its terms.  Any NaN term
\* makes the sum NaN, whatever its coefficient.
calculate_basic_threshold(window, a, b, c) ==
    LET mean == calculate_mean(window)
        sd   == calculate_sd(window)
    IN  [regime |-> "basic",
         nan    |-> window[1].nan \/ mean.nan \/ sd.nan,
         a |-> a, w0 |-> window[1].q,
         b |-> b, mean |-> mean,
         c |-> c, sd |-> sd]

\* 1000000 * exp(-0.005 * j), to the nearest integer, for j = 0, 1, ...
ExpScale == 1000000
ExpTable == <<
    1000000, 995012, 990050, 985112, 980199, 975310, 970446, 965605, 960789,
    955997, 951229, 946485, 941765, 937067, 932394, 927743, 923116, 918512,
    913931, 909373, 904837, 900325, 895834, 891366, 886920, 882497, 878095,
    873716, 869358, 865022, 860708, 856415, 852144, 847894, 843665, 839457,
    835270, 831104, 826959, 822835, 818731, 814647, 810584, 806541, 802519,
    798516, 794534, 790571, 786628, 782705, 778801, 774916, 771052, 767206,
    763379, 759572, 755784, 752014, 748264, 744532, 740818, 737123, 733447,
    729789, 726149, 722527, 718924, 715338, 711770, 708220, 704688, 701173,
    697676, 694197, 690734, 687289, 683861, 680451, 677057, 673680, 670320,
    666977, 663650, 660340, 657047, 653770, 650509, 647265, 644036, 640824,
    637628, 634448, 631284, 628135, 625002, 621885, 618783, 615697, 612626,
    609571, 606531, 603506, 600496, 597501, 594521, 591555, 588605, 585669,
    582748, 579842, 576950, 574072, 571209, 568360, 565525, 562705, 559898,
    557106, 554327, 551563, 548812, 546074, 543351, 540641, 537944, 535261,
    532592, 529935, 527292, 524663, 522046 >>

\* numpy.exp((s * -1) * d) * ExpScale, for s = s200 / 200 and d >= 0
Exp(s200, d) == ExpTable[s200 * d + 1]

\* last_change_frame_value * exp(-s * (current_frame - last_change_frame)),
\* kept as value * factor / ExpScale
calculate_decay_threshold(last_value, s200, last_frame, current_frame) ==
    [regime |-> "decay",
     nan    |-> last_value.nan,
     value  |-> last_value.q,
     factor |-> Exp(s200, current_frame - last_frame),
     anchor |-> last_frame]

\* no threshold computed yet
Unset == [regime |-> "unset", nan |-> TRUE]

\* frame_val > threshold for a basic threshold.  With L = n * (v - a * w0)
\* - b * S the test is L / n > c * sqrt(D / (n * m)), that is
\* sgn(L) * sqrt(L^2 * m) > sgn(c) * sqrt(c^2 * D * n).
GreaterBasic(v, t) ==
    LET n == t.mean.n
        L == n * (v.q - t.a * t.w0) - t.b * t.mean.S
        X == L * L * t.sd.m
        Y == t.c * t.c * t.sd.D * n
    IN  CASE L >= 0 /\ t.c >= 0 -> X > Y
          [] L >= 0 /\ t.c < 0  -> X > 0 \/ Y > 0
          [] L < 0 /\ t.c >= 0  -> FALSE
          [] L < 0 /\ t.c < 0   -> X < Y

\* frame_val > threshold for a decay threshold
GreaterDecay(v, t) == v.q * ExpScale > t.value * t.factor

\* frame_val > threshold (detector.py:276): false when either side is NaN
Greater(v, t) ==
    IF v.nan \/ t.nan THEN FALSE
    ELSE IF t.regime = "basic" THEN GreaterBasic(v, t)
    ELSE GreaterDecay(v, t)


(***************************************************************************)
(* The state of one SceneDetector and of the calls of detect() on it.      *)
(***************************************************************************)
VARIABLES
    pc,                       \* where the caller is: "constructed", "loop"
                              \* (the while test), "done" (returned),
                              \* "raised"; "metric" for a bare method call
    cfg,                      \* the arguments of detect()
    cap,                      \* the cv2.VideoCapture: "none", "open",
                              \* "failed" (not opened), "released"
    window,                   \* the locals of detect(), by their names
    previous_frame,
    frame,
    change_detected,
    decay_counter,
    last_change_frame,
    last_change_frame_value,
    frame_count,
    threshold,
    frame_val,
    output_data,
    files,                    \* the detection files written so far, each the
                              \* sequence of pairs it lists
    raised,                   \* the exception that left detect(), or "none"
    tape,                     \* the frames the video file has turned out to
                              \* hold, in order
    video_end,                \* how the video file ends: "unknown" (not read
                              \* that far), "eof", "decode" (a frame that
                              \* cannot be decoded), "unopenable"
    events,                   \* the pairs for which the branch at
                              \* detector.py:276 was entered in this call
    runs,                     \* events of each completed call, in call order
    compared                  \* the pairs <<frame, previous_frame>> the method
                              \* was called with in this call (detector.py:267)

vars == <<pc, cfg, cap, window, previous_frame, frame, change_detected,
          decay_counter, last_change_frame, last_change_frame_value,
          frame_count, threshold, frame_val, output_data, files, raised,
          tape, video_end, events, runs, compared>>

\* the locals of detect() and the capture
locals == <<cap, window, previous_frame, frame, change_detected,
            decay_counter, last_change_frame, last_change_frame_value,
            frame_count, threshold, frame_val, output_data>>

\* the frames a video of the model may hold: one row of two samples
VideoFrames ==
    { Frame(1, 2, <<0, 0>>), Frame(1, 2, <<0, 255>>), Frame(1, 2, <<255, 0>>) }

\* the coefficient settings of the model: detect()'s defaults
\* (detector.py:179), main()'s call (main.py:24), and all zero; s is
\* s200 / 200
Coefficients ==
    { [a |-> -1, b |-> 2, c |-> 2, s200 |-> 4],
      [a |-> 1,  b |-> 3, c |-> 3, s200 |-> 1],
      [a |-> 0,  b |-> 0, c |-> 0, s200 |-> 0] }

\* the method arguments of the model: the four keys and one that is no key
MethodArgs == Methods \cup {"HIST"}

Configs ==
    { [window_size |-> ws, method |-> m, a |-> co.a, b |-> co.b, c |-> co.c,
       s200 |-> co.s200, k |-> k, output |-> out] :
        ws \in 1..MaxWindow, m \in MethodArgs, co \in Coefficients,
        k \in 0..MaxK, out \in BOOLEAN }

\* numpy.full(window_size, numpy.nan) (detector.py:205); old is the window
\* an earlier call left behind
Kept_NewWindow(old, window_size) ==
    IF Len(old) = window_size THEN old
    ELSE [i \in 1..window_size |-> NaN]

NewWindow(old, window_size) == [i \in 1..window_size |-> NaN]

\* SceneDetector(path, output_dir): nothing but the two paths is stored
\* (detector.py:18-21); detect()'s locals do not exist yet.  video is what
\* is known of the file at input_path, end how it ends.
Constructed(c, end, video) ==
    /\ pc = "constructed"
    /\ cfg = c
    /\ cap = "none"
    /\ window = <<>>
    /\ previous_frame = None
    /\ frame = None
    /\ change_detected = FALSE
    /\ decay_counter = 0
    /\ last_change_frame = -1
    /\ last_change_frame_value = Num(0)
    /\ frame_count = 0
    /\ threshold = Unset
    /\ frame_val = NaN
    /\ output_data = <<>>
    /\ files = <<>>
    /\ raised = "none"
    /\ tape = video
    /\ video_end = end
    /\ events = <<>>
    /\ runs = <<>>
    /\ compared = <<>>

Init ==
    \E c \in Configs, end \in {"unknown", "unopenable"} :
        Constructed(c, end, <<>>)

\* detect() up to the while test (detector.py:204-228)
EnterDetect ==
    /\ window' = NewWindow(window, cfg.window_size)
    /\ output_data' = <<>>
    /\ previous_frame' = None
    /\ frame' = None
    /\ change_detected' = FALSE
    /\ decay_counter' = 0
    /\ last_change_frame' = -1
    /\ last_change_frame_value' = Num(0)
    /\ frame_count' = 0
    /\ threshold' = Unset
    /\ frame_val' = NaN
    /\ cap' = IF video_end = "unopenable" THEN "failed" ELSE "open"
    /\ events' = <<>>
    /\ compared' = <<>>
    /\ raised' = "none"
    /\ pc' = "loop"
    /\ UNCHANGED <<cfg, files, tape, video_end, runs>>

\* the first call of detect()
Detect ==
    /\ pc = "constructed"
    /\ EnterDetect

\* the same call again on the same object, after the first has returned
DetectAgain ==
    /\ pc = "done"
    /\ Len(runs) = 1
    /\ EnterDetect

\* self.__output(output_data): the file lists the pairs in list order
\* (detector.py:163-177)
Reversed_output(data) == [i \in 1..Len(data) |-> data[Len(data) + 1 - i]]

output(data) == data

\* after the loop (detector.py:302-314): the capture is released, the file
\* is written when output is set, and detect() returns
AfterLoop ==
    /\ cap' = "released"
    /\ files' = IF cfg.output THEN Append(files, output(output_data)) ELSE files
    /\ runs' = Append(runs, events)
    /\ pc' = "done"

\* while cap.isOpened() is false at the first test (detector.py:231): the
\* loop is skipped
LoopSkipped ==
    /\ pc = "loop"
    /\ cap # "open"
    /\ AfterLoop
    /\ UNCHANGED <<cfg, window, previous_frame, frame, change_detected,
                   decay_counter, last_change_frame, last_change_frame_value,
                   frame_count, threshold, frame_val, output_data, raised,
                   tape, video_end, events, compared>>

\* cap.read() returns ret = False (detector.py:233-238): the file has no
\* further frame, or its next frame cannot be decoded; the loop is left
ReadNothing ==
    /\ pc = "loop"
    /\ cap = "open"
    /\ frame_count = Len(tape)
    /\ \/ video_end \in {"eof", "decode"} /\ UNCHANGED video_end
       \/ video_end = "unknown" /\ video_end' \in {"eof", "decode"}
    /\ frame_count' = frame_count + 1
    /\ AfterLoop
    /\ UNCHANGED <<cfg, window, previous_frame, frame, change_detected,
                   decay_counter, last_change_frame, last_change_frame_value,
                   threshold, frame_val, output_data, raised, tape, events,
                   compared>>

\* window = numpy.delete(window, -1); window = numpy.insert(window, 0, v)
\* (detector.py:293-297)
Appending_Push(w, v) == Tail(w) \o <<v>>

Push(w, v) == <<v>> \o SubSeq(w, 1, Len(w) - 1)

\* the threshold branch with the decay ended one frame late
Late_Thresholding(n) ==
    IF change_detected
    THEN [threshold |-> calculate_decay_threshold(
                            last_change_frame_value, cfg.s200,
                            last_change_frame, n),
          decay_counter |-> decay_counter - 1,
          change_detected |-> ~(decay_counter - 1 < 0)]
    ELSE [threshold |-> calculate_basic_threshold(window, cfg.a, cfg.b, cfg.c),
          decay_counter |-> decay_counter,
          change_detected |-> FALSE]

\* the threshold branch with the regime chosen after the decrement
Eager_Thresholding(n) ==
    IF change_detected /\ decay_counter - 1 > 0
    THEN [threshold |-> calculate_decay_threshold(
                            last_change_frame_value, cfg.s200,
                            last_change_frame, n),
          decay_counter |-> decay_counter - 1,
          change_detected |-> TRUE]
    ELSE [threshold |-> calculate_basic_threshold(window, cfg.a, cfg.b, cfg.c),
          decay_counter |-> IF change_detected THEN decay_counter - 1
                            ELSE decay_counter,
          change_detected |-> FALSE]

\* the threshold branch with the value of the pass already in the window
Pushed_Thresholding(n) ==
    IF change_detected
    THEN [threshold |-> calculate_decay_threshold(
                            last_change_frame_value, cfg.s200,
                            last_change_frame, n),
          decay_counter |-> decay_counter - 1,
          change_detected |-> ~(decay_counter - 1 <= 0)]
    ELSE [threshold |-> calculate_basic_threshold(
                            Push(window, get_difference_method(
                                             cfg.method, frame', previous_frame)),
                            cfg.a, cfg.b, cfg.c),
          decay_counter |-> decay_counter,
          change_detected |-> FALSE]

\* the threshold branch (detector.py:252-264), as the values it leaves
Thresholding(n) ==
    IF change_detected
    THEN [threshold |-> calculate_decay_threshold(
                            last_change_frame_value, cfg.s200,
                            last_change_frame, n),
          decay_counter |-> decay_counter - 1,
          change_detected |-> ~(decay_counter - 1 <= 0)]
    ELSE [threshold |-> calculate_basic_threshold(window, cfg.a, cfg.b, cfg.c),
          decay_counter |-> decay_counter,
          change_detected |-> FALSE]

\* the values for the decay function after a change at frame n of value v
\* (detector.py:287-291)
Merging_SetDecay(n, v) ==
    IF change_detected
    THEN [change_detected |-> TRUE,
          decay_counter |-> cfg.k,
          last_change_frame |-> last_change_frame,
          last_change_frame_value |-> last_change_frame_value]
    ELSE [change_detected |-> TRUE,
          decay_counter |-> cfg.k,
          last_change_frame |-> n,
          last_change_frame_value |-> v]

Uncounted_SetDecay(n, v) ==
    [change_detected |-> TRUE,
     decay_counter |-> decay_counter,
     last_change_frame |-> n,
     last_change_frame_value |-> v]

SetDecay(n, v) ==
    [change_detected |-> TRUE,
     decay_counter |-> cfg.k,
     last_change_frame |-> n,
     last_change_frame_value |-> v]

\* the pair recorded for a change detected with frame_count = n
\* (detector.py:285)
ZeroBased_ChangeEvent(n) == <<n - 2, n - 1>>

ChangeEvent(n) == <<n - 1, n>>

\* previous_frame = frame (detector.py:300)
Stale_NextPrevious(f) == previous_frame

NextPrevious(f) == f

\* one pass of the loop body with a frame f read (detector.py:233-300)
Body(f) ==
    LET n == frame_count + 1
    IN  /\ frame_count' = n
        /\ frame' = f
        /\ IF previous_frame = None
           THEN \* the first frame only becomes previous_frame
                /\ previous_frame' = f
                /\ pc' = "loop"
                /\ UNCHANGED <<window, change_detected, decay_counter,
                               last_change_frame, last_change_frame_value,
                               threshold, frame_val, output_data, raised,
                               events, compared>>
           ELSE LET th == Thresholding(n)
                    v  == get_difference_method(cfg.method, f, previous_frame)
                IN  /\ threshold' = th.threshold
                    /\ compared' = IF cfg.method \in Methods
                                    THEN Append(compared, <<f, previous_frame>>)
                                    ELSE compared
                    /\ IF IsRaised(v)
                       THEN \* the exception leaves detect()
                            /\ raised' = v.error
                            /\ pc' = "raised"
                            /\ decay_counter' = th.decay_counter
                            /\ change_detected' = th.change_detected
                            /\ UNCHANGED <<window, previous_frame,
                                           last_change_frame,
                                           last_change_frame_value,
                                           frame_val, output_data, events>>
                       ELSE /\ frame_val' = v
                            /\ IF Greater(v, th.threshold)
                               THEN /\ output_data' =
                                          IF cfg.output
                                          THEN Append(output_data, ChangeEvent(n))
                                          ELSE output_data
                                    /\ events' = Append(events, ChangeEvent(n))
                                    /\ change_detected' = SetDecay(n, v).change_detected
                                    /\ decay_counter' = SetDecay(n, v).decay_counter
                                    /\ last_change_frame' = SetDecay(n, v).last_change_frame
                                    /\ last_change_frame_value' =
                                          SetDecay(n, v).last_change_frame_value
                               ELSE /\ change_detected' = th.change_detected
                                    /\ decay_counter' = th.decay_counter
                                    /\ UNCHANGED <<output_data, events,
                                                   last_change_frame,
                                                   last_change_frame_value>>
                            /\ window' = Push(window, v)
                            /\ previous_frame' = NextPrevious(f)
                            /\ pc' = "loop"
                            /\ raised' = "none"

\* cap.read() returns a frame the file was not known to hold
ReadNew ==
    /\ pc = "loop"
    /\ cap = "open"
    /\ frame_count = Len(tape)
    /\ video_end = "unknown"
    /\ Len(tape) < MaxFrames
    /\ \E f \in VideoFrames :
          /\ tape' = Append(tape, f)
          /\ Body(f)
    /\ UNCHANGED <<cfg, cap, files, video_end, runs>>

\* cap.read() returns a frame an earlier call has read already
ReadAgain ==
    /\ pc = "loop"
    /\ cap = "open"
    /\ frame_count < Len(tape)
    /\ Body(tape[frame_count + 1])
    /\ UNCHANGED <<cfg, cap, files, video_end, runs, tape>>

\* one call of detect() on a new object
Next ==
    \/ Detect
    \/ LoopSkipped
    \/ ReadNothing
    \/ ReadNew

Spec == Init /\ [][Next]_vars

(***************************************************************************)
(* Two calls of detect() in a row on one object, with the same arguments   *)
(* and the same video file.                                                *)
(***************************************************************************)
ReplayConfigs ==
    { c \in Configs : c.window_size = MaxWindow /\ c.k = 1 /\ c.output }

ReplayInit ==
    \E c \in ReplayConfigs, end \in {"unknown", "unopenable"} :
        Constructed(c, end, <<>>)

ReplayNext ==
    \/ Detect
    \/ LoopSkipped
    \/ ReadNothing
    \/ ReadNew
    \/ DetectAgain
    \/ ReadAgain

ReplaySpec == ReplayInit /\ [][ReplayNext]_vars

(***************************************************************************)
(* One call of a difference method on a pair of frames, outside detect().  *)
(***************************************************************************)
\* the frames of the method calls: three shapes, samples that differ by
\* little, by a multiple of 16, and by almost the whole range
MethodFrames ==
    { Frame(1, 1, <<x>>) : x \in {0, 1, 16, 255} }
    \cup { Frame(1, 2, <<x, y>>) : x, y \in {0, 16, 255} }
    \cup { Frame(2, 1, <<x, y>>) : x, y \in {0, 255} }

MethodInit ==
    \E m \in MethodArgs, f1, f2 \in MethodFrames :
        /\ pc = "method"
        /\ cfg = [window_size |-> 20, method |-> m, a |-> -1, b |-> 2,
                  c |-> 2, s200 |-> 4, k |-> 20, output |-> FALSE]
        /\ cap = "none"
        /\ window = <<>>
        /\ previous_frame = f2
        /\ frame = f1
        /\ change_detected = FALSE
        /\ decay_counter = 0
        /\ last_change_frame = -1
        /\ last_change_frame_value = Num(0)
        /\ frame_count = 0
        /\ threshold = Unset
        /\ frame_val = NaN
        /\ output_data = <<>>
        /\ files = <<>>
        /\ raised = "none"
        /\ tape = <<>>
        /\ video_end = "unknown"
        /\ events = <<>>
        /\ runs = <<>>
        /\ compared = <<>>

\* frame_val = self.__get_difference_method(method)(frame, previous_frame)
\* (detector.py:267-268)
CallMethod ==
    /\ pc = "method"
    /\ LET v == get_difference_method(cfg.method, frame, previous_frame)
       IN  IF IsRaised(v)
           THEN /\ raised' = v.error
                /\ pc' = "method raised"
                /\ UNCHANGED frame_val
           ELSE /\ frame_val' = v
                /\ pc' = "method returned"
                /\ UNCHANGED raised
    /\ UNCHANGED <<cfg, cap, window, previous_frame, frame, change_detected,
                   decay_counter, last_change_frame, last_change_frame_value,
                   frame_count, threshold, output_data, files, tape,
                   video_end, events, runs, compared>>

MethodNext == CallMethod

MethodSpec == MethodInit /\ [][MethodNext]_vars

(***************************************************************************)
(* The call main() makes (main.py:24, with output set), on videos of 61    *)
(* frames of one sample: 30 frames of a first scene, a cut at frame 31 to  *)
(* a second scene, and a cut back at frame 60.                             *)
(***************************************************************************)
\* method="SSD", a=1, b=3, c=3, s=0.005 and the defaults window_size=20,
\* k=20 (detector.py:179)
MainConfig ==
    [window_size |-> 20, method |-> "SSD", a |-> 1, b |-> 3, c |-> 3,
     s200 |-> 1, k |-> 20, output |-> TRUE]

\* by how much the samples of the two scenes differ
Cuts == {100, 128, 200}

\* how the frames of one scene differ from each other
Noises == {"still", "flicker", "bump"}

ScenarioFrame(i, cut, noise) ==
    LET scene == IF i >= 31 /\ i <= 59 THEN cut ELSE 0
        grain == CASE noise = "still"   -> 0
                   [] noise = "flicker" -> i % 2
                   [] noise = "bump"    -> IF i = 45 THEN 5 ELSE 0
    IN  Frame(1, 1, <<scene + grain>>)

ScenarioVideo(cut, noise) == [i \in 1..61 |-> ScenarioFrame(i, cut, noise)]

ScenarioInit ==
    \E cut \in Cuts, noise \in Noises :
        Constructed(MainConfig, "eof", ScenarioVideo(cut, noise))

ScenarioNext ==
    \/ Detect
    \/ ReadAgain
    \/ ReadNothing

ScenarioSpec == ScenarioInit /\ [][ScenarioNext]_vars

(***************************************************************************)
(* Properties of one call of detect(), checked under Spec.                 *)
(***************************************************************************)
\* the value of the frame pair (i - 1, i) of the video
Score(i) == get_difference_method(cfg.method, tape[i], tape[i - 1])

\* the number of frame pairs processed when the loop is at its test
Pairs == IF frame_count >= 1 THEN frame_count - 1 ELSE 0

Min2(x, y) == IF x <= y THEN x ELSE y

\* the frames at which a change was detected, in detection order
ChangeFrames == [i \in 1..Len(events) |-> events[i][2]]

\* C1: for window_size >= 2, between two passes of the loop the window has
\* exactly window_size slots; its first min(n, window_size) slots hold the
\* values of the most recent frame pairs, newest at index 0, and the slots
\* behind them are still absent (n = number of pairs processed).
C1_WindowHoldsMostRecent ==
    (pc = "loop" /\ cfg.window_size >= 2) =>
        /\ Len(window) = cfg.window_size
        /\ \A j \in 1..Len(window) :
              IF j <= Min2(Pairs, cfg.window_size)
              THEN window[j] = Score(frame_count - j + 1)
              ELSE window[j] = NaN

\* C1 witness: more pairs than slots have been processed and the two newest
\* values differ, so both the eviction and the order show
C1_Witness ==
    /\ pc = "loop"
    /\ cfg.window_size >= 2
    /\ Pairs > cfg.window_size
    /\ ~window[1].nan /\ ~window[2].nan
    /\ window[1].q > window[2].q

\* C2: a pass that computes the basic threshold from a window with fewer
\* than 2 present entries detects no change, whatever a, b, c are; so no
\* change is detected at the first or the second frame pair (frames 2, 3).
C2_NoChangeBeforeTwoEntries ==
    /\ (pc = "loop" /\ threshold.regime = "basic" /\ threshold.sd.n < 2) =>
            /\ threshold.nan
            /\ last_change_frame # frame_count
            /\ \A i \in 1..Len(events) : ChangeFrames[i] # frame_count
    /\ \A i \in 1..Len(events) : ChangeFrames[i] > 3

\* C2 witness: all coefficients zero, the second pair processed with one
\* present entry in the window and a positive value, and no change detected
C2_Witness ==
    /\ pc = "loop"
    /\ frame_count = 3
    /\ cfg.a = 0 /\ cfg.b = 0 /\ cfg.c = 0
    /\ threshold.regime = "basic"
    /\ threshold.sd.n = 1
    /\ ~frame_val.nan /\ frame_val.q > 0
    /\ events = <<>>
    /\ ~change_detected

\* C3 as stated: decay_counter is never negative, the decay is active
\* right after the pass that detected a change at frame F, and it is not
\* active after the pass for frame F + k.
C3_Original ==
    /\ decay_counter >= 0
    /\ \A i \in 1..Len(events) :
          /\ (pc = "loop" /\ frame_count = ChangeFrames[i]) => change_detected
          /\ (pc = "loop" /\ frame_count = ChangeFrames[i] + cfg.k)
                => ~change_detected

\* C3 as amended: for k >= 1, decay_counter stays within 0..k, the decay is
\* active right after the pass that detected a change at frame F, and it is
\* not active after the pass for frame F + k unless a further change was
\* detected at one of the frames F + 1 .. F + k.
C3_DecayEndsUnlessRestarted ==
    cfg.k >= 1 =>
        /\ decay_counter >= 0
        /\ decay_counter <= cfg.k
        /\ \A i \in 1..Len(events) :
              LET F == ChangeFrames[i]
              IN  /\ (pc = "loop" /\ frame_count = F) => change_detected
                  /\ ( /\ pc = "loop"
                       /\ frame_count = F + cfg.k
                       /\ \A j \in 1..Len(events) :
                             ~(ChangeFrames[j] \in (F + 1)..(F + cfg.k)) )
                        => ~change_detected

\* C3 witness: k frames after the only change the decay has just ended
C3_Witness ==
    /\ pc = "loop"
    /\ cfg.k >= 1
    /\ Len(events) = 1
    /\ frame_count = ChangeFrames[1] + cfg.k
    /\ decay_counter = 0
    /\ ~change_detected
    /\ threshold.regime = "decay"

\* the last change detected before frame n, as <<frame, value>>
AnchorBefore(n) ==
    LET earlier == SelectSeq(ChangeFrames, LAMBDA F : F < n)
        F == earlier[Len(earlier)]
    IN  <<F, Score(F)>>

\* C4: a pass for frame G that starts in decay and detects a change leaves
\* exactly {active, k, G, value at G}, whatever the earlier anchor, value
\* and countdown were; and every decay threshold is computed from the last
\* change detected before that pass alone.
C4_ChangeInDecayOverwrites ==
    /\ ( /\ pc = "loop"
         /\ threshold.regime = "decay"
         /\ Len(events) >= 1
         /\ ChangeFrames[Len(events)] = frame_count )
          => /\ change_detected
             /\ decay_counter = cfg.k
             /\ last_change_frame = frame_count
             /\ last_change_frame_value = Score(frame_count)
    /\ (pc = "loop" /\ threshold.regime = "decay")
          => LET A == AnchorBefore(frame_count)
             IN  /\ threshold.anchor = A[1]
                 /\ threshold.value = A[2].q
                 /\ threshold.factor = Exp(cfg.s200, frame_count - A[1])

\* C4 witness: a change detected in decay at frame G, with another value
\* than the anchor it replaces, and the pass for frame G + 1 done in decay
C4_Witness ==
    /\ pc = "loop"
    /\ threshold.regime = "decay"
    /\ Len(events) >= 2
    /\ ChangeFrames[Len(events)] = frame_count - 1
    /\ ChangeFrames[Len(events) - 1] >= frame_count - 1 - cfg.k
    /\ Score(ChangeFrames[Len(events)]) # Score(ChangeFrames[Len(events) - 1])
    /\ threshold.anchor = frame_count - 1

\* the pairs the detection file of the current call lists, once written
Delivered == IF files = <<>> THEN <<>> ELSE files[Len(files)]

C6_UnknownMethodRejectedBeforeLoop ==
    ~(cfg.method \in Methods) =>
        /\ pc \in {"constructed", "raised"}
        /\ tape = <<>>

\* C7 as stated: when the video cannot be opened or a frame cannot be
\* decoded, detect() does not return normally.
C7_DecodeFailureIsAnError ==
    video_end \in {"decode", "unopenable"} => pc # "done"

(***************************************************************************)
(* Properties of the difference methods, checked under MethodSpec.         *)
(***************************************************************************)
Abs(x) == IF x < 0 THEN -x ELSE x

\* the sum over all samples of |a[i] - b[i]|, in the integers
SumAbsDiff(f1, f2) ==
    SumSeq([i \in 1..Size(f1) |-> Abs(f1.data[i] - f2.data[i])])

\* the sum over all samples of (a[i] - b[i])^2, in the integers
SumSqDiff(f1, f2) ==
    SumSeq([i \in 1..Size(f1) |->
               (f1.data[i] - f2.data[i]) * (f1.data[i] - f2.data[i])])

\* C8 as stated: on two frames of one shape SAD returns the integer sum of
\* |a[i] - b[i]| and SSD the integer sum of (a[i] - b[i])^2, so that either
\* is the same for both orders of its arguments.
C8_SadSsdAreExactSums ==
    ( /\ pc = "method returned"
      /\ frame.shape = previous_frame.shape
      /\ cfg.method \in {"SAD", "SSD"} )
      => /\ cfg.method = "SAD"
              => frame_val = Num(SumAbsDiff(frame, previous_frame))
         /\ cfg.method = "SSD"
              => frame_val = Num(SumSqDiff(frame, previous_frame))
         /\ frame_val =
              get_difference_method(cfg.method, previous_frame, frame)

(***************************************************************************)
(* Properties of two calls in a row, checked under ReplaySpec.             *)
(***************************************************************************)
\* C9: a second call of detect() with the same arguments on the same video
\* detects the same changes as the first and writes the same list: nothing
\* of the first call is left in the window, the decay state or the frame
\* counter of the second.
C9_ReplayDetectsTheSame ==
    /\ Len(runs) = 2 => (runs[2] = runs[1] /\ files[2] = files[1])
    /\ (Len(runs) = 1 /\ pc = "loop")
          => /\ Len(events) <= Len(runs[1])
             /\ events = SubSeq(runs[1], 1, Len(events))
             /\ \A j \in 1..Len(window) :
                   j > Pairs => window[j] = NaN

\* C9 witness: both calls have returned and the first one detected changes
C9_Witness ==
    /\ Len(runs) = 2
    /\ pc = "done"
    /\ Len(runs[1]) >= 2
    /\ Len(files) = 2

(***************************************************************************)
(* The scenario, checked under ScenarioSpec.                               *)
(***************************************************************************)
\* C10 as stated: the call returns having detected the cut once, as the
\* pair (31, 32), nothing before it, nothing in the 20 frames after it, and
\* a change at frame 60.
C10_ScenarioAsStated ==
    pc = "done" =>
        /\ \E i \in 1..Len(events) : events[i] = <<31, 32>>
        /\ \A i \in 1..Len(events) :
              ChangeFrames[i] <= 52 => events[i] = <<31, 32>>
        /\ \E i \in 1..Len(events) : ChangeFrames[i] = 60

\* The same with the cut numbered as detect() numbers it, (30, 31): frame 31
\* is the first frame of the second scene.  It fails too, on the videos
\* whose cut has a squared difference that is 0 modulo 256.
C10_ScenarioRenumbered ==
    pc = "done" =>
        /\ \E i \in 1..Len(events) : events[i] = <<30, 31>>
        /\ \A i \in 1..Len(events) :
              ChangeFrames[i] <= 51 => events[i] = <<30, 31>>
        /\ \E i \in 1..Len(events) : ChangeFrames[i] = 60

(***************************************************************************)
(* One call of detect() that is never left half way: the loop of           *)
(* detector.py:231-300 is one thread that nothing suspends (display is     *)
(* unset, so no cv2.waitKey is reached), hence a step that can be taken is *)
(* taken.                                                                  *)
(***************************************************************************)
RunToEndSpec == ReplayInit /\ [][Next]_vars /\ WF_vars(Next)

\* the pairs a call with a known method has compared once it has read the
\* first n frames of the file
ComparedUpTo(n) == [i \in 1..Max2(n - 1, 0) |-> <<tape[i + 1], tape[i]>>]

\* C11: a call on a file of n frames followed by the end of the file returns,
\* having called the method once per frame after the first, on that frame and
\* the frame read just before it, in file order; the first frame is only
\* stored as previous_frame: no score, no change of the window, no event.
C11_OneStepPerLaterFrame ==
    /\ [] ( /\ (cfg.method \in Methods /\ pc = "loop")
               => compared = ComparedUpTo(frame_count)
            /\ (cfg.method \in Methods /\ pc = "done" /\ video_end = "eof")
               => compared = ComparedUpTo(Len(tape))
            /\ (pc = "loop" /\ frame_count = 1)
               => /\ previous_frame = tape[1]
                  /\ frame_val = NaN
                  /\ threshold = Unset
                  /\ window = NewWindow(window, cfg.window_size)
                  /\ events = <<>>
                  /\ compared = <<>> )
    /\ <>(pc \in {"done", "raised"})

C11_Witness ==
    /\ pc = "done"
    /\ video_end = "eof"
    /\ cfg.method \in Methods
    /\ Len(tape) = 4
    /\ Len(compared) = 3
    /\ compared[3][2] # compared[1][2]
    /\ compared[3][2] # compared[2][2]

\* C12: SAD, SSD and MAD of a frame and an identical frame are exactly 0,
\* whatever the shape and the samples of the frame.
C12_IdenticalFramesScoreZero ==
    (/\ pc \in {"method returned", "method raised"}
     /\ cfg.method \in {"SAD", "SSD", "MAD"}
     /\ frame = previous_frame)
        => /\ pc = "method returned"
           /\ frame_val = Num(0)

C12_Witness ==
    /\ pc = "method returned"
    /\ cfg.method = "MAD"
    /\ frame = previous_frame
    /\ frame = Frame(1, 2, <<16, 255>>)
    /\ frame_val = Num(0)

\* C13: a difference method called on two frames of different dimensions
\* raises; for no pair of differently shaped frames does it return a score.
C13_ShapeMismatchRaises ==
    (/\ pc \in {"method returned", "method raised"}
     /\ cfg.method \in Methods
     /\ frame.shape # previous_frame.shape)
        => /\ pc = "method raised"
           /\ raised = "ValueError"

\* C14: what a call holds is bounded independently of the number of frames
\* read: the window, the change state, the counters and two frames; no pass
\* of the loop makes a collection of the call longer.
C14_NoCollectionGrows ==
    [][pc = "loop" => /\ Len(output_data') <= Len(output_data)
                      /\ Len(window') = Len(window)]_vars

\* a pass of the loop with a frame read and a previous frame at hand
StepTaken == pc = "loop" /\ previous_frame # None /\ pc' \in {"loop", "raised"}

\* the pass has entered the branch at detector.py:276
Triggered == events' # events

\* C15: the flag change_detected at the start of a pass decides the
\* threshold of the pass.  A pass that starts with the flag set uses
\* last_change_frame_value * exp(-s * (frame_count - last_change_frame)), also
\* when it brings decay_counter to zero; unless that pass detects a change
\* the flag is then unset, so the next pass uses the basic threshold.  A pass
\* that starts with the flag unset uses the basic threshold of the window and
\* leaves decay_counter alone unless it detects a change.
C15_RegimeFromFlagAtStart ==
    [][StepTaken =>
        /\ change_detected =>
              /\ threshold'.regime = "decay"
              /\ threshold'.anchor = last_change_frame
              /\ threshold'.value = last_change_frame_value.q
              /\ threshold'.factor =
                     Exp(cfg.s200, frame_count' - last_change_frame)
              /\ ~Triggered =>
                    /\ decay_counter' = decay_counter - 1
                    /\ change_detected' = (decay_counter' > 0)
        /\ ~change_detected =>
              /\ threshold' = calculate_basic_threshold(window, cfg.a, cfg.b, cfg.c)
              /\ ~Triggered =>
                    /\ decay_counter' = decay_counter
                    /\ ~change_detected']_vars

\* a pass has brought decay_counter from 1 to 0 under a decay threshold and
\* has detected nothing
C15_Witness ==
    /\ pc = "loop"
    /\ cfg.k = 2
    /\ events # <<>>
    /\ ChangeFrames[Len(events)] = frame_count - 2
    /\ threshold.regime = "decay"
    /\ ~threshold.nan
    /\ threshold.value > 0
    /\ decay_counter = 0
    /\ ~change_detected

\* C16: a pass computes the threshold, compares, updates the change state and
\* only then puts the frame value into the window.  The basic threshold of the
\* pass for frame n is computed from the values of the earlier pairs in the
\* window, window[0] being the value of the pair just before; the value of the
\* pass is not part of its own threshold; and every pass that has a value puts
\* it into the window, detection or not, decay or basic.
C16_ThresholdBeforePush ==
    [][(StepTaken /\ pc' = "loop") =>
        /\ window' = Push(window, frame_val')
        /\ window'[1] = Score(frame_count)'
        /\ ~change_detected =>
              /\ threshold' = calculate_basic_threshold(window, cfg.a, cfg.b, cfg.c)
              /\ frame_count >= 2 =>
                    /\ threshold'.w0 = Score(frame_count).q
                    /\ window[1] = Score(frame_count)
        /\ Triggered <=> Greater(frame_val', threshold')]_vars

\* a pass under the decay threshold has put a value into the window that
\* differs from the one before it, and has detected nothing
C16_Witness ==
    /\ pc = "loop"
    /\ cfg.window_size = 2
    /\ frame_count >= 4
    /\ threshold.regime = "decay"
    /\ events # <<>>
    /\ ChangeFrames[Len(events)] < frame_count
    /\ window[1] = frame_val
    /\ window[1] # window[2]
    /\ ~window[2].nan

\* C17: a pass of the loop records at most one change, and each recorded
\* change is the pair (i - 1, i), i being the position, counted from 1, of
\* the frame of the pass in the video, so i >= 2; the second components of the
\* recorded pairs are strictly increasing.
C17_OneEventPerStepInOrder ==
    /\ [] ( /\ \A i \in 1..Len(events) :
                  /\ events[i] = <<ChangeFrames[i] - 1, ChangeFrames[i]>>
                  /\ ChangeFrames[i] >= 2
                  /\ ChangeFrames[i] <= Len(tape)
            /\ \A i, j \in 1..Len(events) :
                  i < j => ChangeFrames[i] < ChangeFrames[j] )
    /\ [][StepTaken =>
            /\ frame' = tape'[frame_count']
            /\ \/ events' = events
               \/ events' = Append(events, <<frame_count' - 1, frame_count'>>)]_vars

C17_Witness ==
    /\ pc = "loop"
    /\ Len(events) = 3
    /\ ChangeFrames[1] = 4
    /\ ChangeFrames[2] = 5
    /\ ChangeFrames[3] = frame_count

\* C18: with CORR the value compared with the threshold and put into the
\* window is the correlation with its polarity inverted (1 - correlation, or
\* another decreasing function of it), never the coefficient itself: of two
\* consecutive frame pairs the one with the larger correlation has the
\* smaller value in the window.
C18_CorrIsInverted ==
    (/\ pc = "loop"
     /\ cfg.method = "CORR"
     /\ cfg.window_size >= 2
     /\ frame_count >= 3
     /\ ~calculate_CORR(tape[frame_count], tape[frame_count - 1]).nan
     /\ ~calculate_CORR(tape[frame_count - 1], tape[frame_count - 2]).nan
     /\ calculate_CORR(tape[frame_count], tape[frame_count - 1]).q
           > calculate_CORR(tape[frame_count - 1], tape[frame_count - 2]).q)
        => /\ ~window[1].nan
           /\ ~window[2].nan
           /\ window[1].q < window[2].q

\* C19: for k >= 1, whenever the loop is at its test (and after it),
\* 0 <= decay_counter <= k, and change_detected holds exactly when
\* decay_counter > 0; before the first pass they are False and 0.
C19_FlagIffCounterPositive ==
    /\ (pc \in {"loop", "done"} /\ cfg.k >= 1)
          => /\ decay_counter >= 0
             /\ decay_counter <= cfg.k
             /\ change_detected <=> decay_counter > 0
    /\ (pc = "loop" /\ frame_count = 0)
          => (~change_detected /\ decay_counter = 0)

\* one pass after a detection with k = 2, no further detection in it
C19_Witness ==
    /\ pc = "loop"
    /\ cfg.k = 2
    /\ events # <<>>
    /\ ChangeFrames[Len(events)] = frame_count - 1
    /\ change_detected
    /\ decay_counter = 1

\* C20: with window_size = 1, whatever the frames and a, b, c, s, k, no
\* change is ever detected and the decay function is never used: the window
\* never has two entries that are not NaN, so the standard deviation with
\* divisor n - 1, and with it every basic threshold, is NaN.
C20_SingleSlotWindowDetectsNothing ==
    cfg.window_size = 1
        => /\ events = <<>>
           /\ output_data = <<>>
           /\ ~change_detected
           /\ decay_counter = 0
           /\ threshold.regime # "decay"
           /\ threshold.nan
           /\ pc \in {"loop", "done"} => Len(Present(window)) <= 1
           /\ (pc = "loop" /\ frame_count >= 2) => calculate_sd(window).nan

\* three passes with a window of one slot and a = b = c = 0: the window holds
\* a value, the last value is larger than the one before, nothing detected
C20_Witness ==
    /\ pc = "loop"
    /\ cfg.window_size = 1
    /\ cfg.a = 0 /\ cfg.b = 0 /\ cfg.c = 0
    /\ cfg.method = "SAD"
    /\ frame_count = 4
    /\ Score(3) = Num(0)
    /\ Score(4).q > 0
    /\ window = <<Score(4)>>
    /\ events = <<>>

=============================================================================
